---- MODULE Spec2Model ----
(***************************************************************************)
(* A model of the reading tracker's state engine: the localStorage-backed   *)
(* book store (useBooks), the derived-field functions of types/book.ts,     *)
(* the reading-activity tracker (useReadingStreak) and its streak           *)
(* calculator.                                                              *)
(*                                                                          *)
(* Time.  The JavaScript clock counts milliseconds; the model's clock       *)
(* counts ticks of one hour, so a day is TicksPerDay = 24 ticks where the   *)
(* source writes 1000 * 60 * 60 * 24.  Date.now() is the tick count `now`.  *)
(* A date string "YYYY-MM-DD" is modelled by its day number (days since     *)
(* the epoch); the lexicographic order of such strings is the numeric       *)
(* order of the day numbers.  What is NOT the identity, and is modelled as  *)
(* the engine computes it, is the passage between instants and days:        *)
(* new Date(str) is UTC midnight, toISOString() reads the UTC day, and      *)
(* setDate(getDate() - 1) steps one day back on the LOCAL wall clock of the *)
(* host time zone `tz`.                                                     *)
(***************************************************************************)
EXTENDS Integers, Sequences, FiniteSets, TLC

VARIABLES
    books,          \* useBooks: the `books` state, a sequence of book records
    storage,        \* localStorage under 'book-tracker-library'
    now,            \* the host clock, in ticks
    raised,         \* "none", or the error that escaped a handler or effect
    lastOp,         \* the last operation performed and its arguments
    readingDates,   \* useReadingStreak: the `readingDates` state
    streak,         \* useReadingStreak (calculated revision): the `streak` state
    manualStreak,   \* useReadingStreak (manual revision): <<>> is null, <<n>> is n
    rev,            \* which revision of useReadingStreak is running
    tz,             \* the host time zone: [before, after, at]
    datesStorage,   \* localStorage under 'book-tracker-reading-dates'
    manualStorage,  \* localStorage under 'book-tracker-manual-streak'
    loadedDates,    \* the value the readingDates initializer returned
    pc,             \* position of the one-shot specifications
    filter,         \* useBooks: the `filter` state
    searchQuery,    \* useBooks: the `searchQuery` state, a sequence of characters
    view            \* what the last call of a one-shot specification returned

vars == <<books, storage, now, raised, lastOp, readingDates, streak,
          manualStreak, rev, tz, datesStorage, manualStorage, loadedDates, pc,
          filter, searchQuery, view>>

----------------------------------------------------------------------------
(* Bounds of the model. *)

MaxDay == 4         \* reading dates are days 0 .. MaxDay
MaxDates == 3       \* length of the date lists given to the calculator
MaxBooks == 3       \* adds per run of the store
MaxPages == 1       \* totalPages of a draft is in 1 .. MaxPages
MaxClock == 1       \* the store's clock runs over 0 .. MaxClock
BooksQuota == 2     \* a books value with more records does not fit the store
DatesQuota == 4     \* a dates value with more entries does not fit the store

(* useReadingStreak.ts:38, in ticks of one hour. *)
TicksPerDay == 24

Max(a, b) == IF a >= b THEN a ELSE b

----------------------------------------------------------------------------
(* The host clock and time zone (ECMAScript Date semantics).                *)

(* A time zone is its UTC offset before and after one transition instant.   *)
(* The fixed zone is UTC; the others are a zone that leaves daylight time   *)
(* (offset -4 to -5 at 06:00 UTC) or enters it (-5 to -4 at 07:00 UTC) on   *)
(* one of the days of the window.                                           *)
FixedZone == [before |-> 0, after |-> 0, at |-> 0]

TimeZones ==
    {FixedZone}
    \cup {[before |-> 0 - 4, after |-> 0 - 5, at |-> d * TicksPerDay + 6] : d \in 0..MaxDay}
    \cup {[before |-> 0 - 5, after |-> 0 - 4, at |-> d * TicksPerDay + 7] : d \in 0..MaxDay}

(* LocalTZA(t, true): the offset in force at the UTC instant t. *)
LocalTZAOfUTC(t, zone) == IF t < zone.at THEN zone.before ELSE zone.after

(* LocalTZA(t, false): the offset of the local time w; a local time that is *)
(* repeated or skipped by the transition takes the offset before it.        *)
LocalTZAOfLocal(w, zone) ==
    IF w < zone.at + Max(zone.before, zone.after) THEN zone.before ELSE zone.after

LocalTime(t, zone) == t + LocalTZAOfUTC(t, zone)
UTC(w, zone) == w - LocalTZAOfLocal(w, zone)

(* new Date("YYYY-MM-DD"): a date-only string is UTC midnight of that day. *)
ParseDate(day) == day * TicksPerDay

(* d.toISOString().split('T')[0]: the UTC day of the instant. *)
ToISODate(t) == t \div TicksPerDay

(* d.setDate(d.getDate() - 1): one day back on the local wall clock. *)
SetDateMinusOne(t, zone) == UTC(LocalTime(t, zone) - TicksPerDay, zone)

getTodayString(t) == ToISODate(t)

----------------------------------------------------------------------------
(* calculateStreak (useReadingStreak.ts:11-49).                             *)

RECURSIVE InsertDesc(_, _)
InsertDesc(s, d) ==
    IF s = <<>> THEN <<d>>
    ELSE IF ParseDate(d) > ParseDate(Head(s)) THEN <<d>> \o s
    ELSE <<Head(s)>> \o InsertDesc(Tail(s), d)

(* [...dates].sort((a, b) => new Date(b).getTime() - new Date(a).getTime()); *)
(* the sort is stable, so an entry goes after the entries equal to it.        *)
RECURSIVE SortDatesDesc(_)
SortDatesDesc(dates) ==
    IF dates = <<>> THEN <<>>
    ELSE InsertDesc(SortDatesDesc(SubSeq(dates, 1, Len(dates) - 1)), dates[Len(dates)])

(* The for loop of lines 29-46 from index i on. *)
RECURSIVE StreakLoop(_, _, _, _, _)
StreakLoop(sortedDates, i, count, currentDate, zone) ==
    IF i > Len(sortedDates) THEN count
    ELSE LET dateStr == sortedDates[i]
             expectedDate == ToISODate(currentDate)
         IN  IF dateStr = expectedDate
             THEN StreakLoop(sortedDates, i + 1, count + 1,
                             SetDateMinusOne(currentDate, zone), zone)
             ELSE IF dateStr < expectedDate
             THEN LET dateToCheck == ParseDate(dateStr)
                      dayDiff == (currentDate - dateToCheck) \div TicksPerDay
                  IN  IF dayDiff > 1 THEN count
                      ELSE StreakLoop(sortedDates, i + 1, count,
                                      SetDateMinusOne(dateToCheck, zone), zone)
             ELSE StreakLoop(sortedDates, i + 1, count, currentDate, zone)

countEntries(dates, t, zone) ==
    IF Len(dates) = 0 THEN 0
    ELSE IF SortDatesDesc(dates)[1] \in {getTodayString(t), ToISODate(SetDateMinusOne(t, zone))}
    THEN Len(dates)
    ELSE 0

calculateStreak(dates, t, zone) ==
    IF Len(dates) = 0 THEN 0
    ELSE LET sortedDates == SortDatesDesc(dates)
             today == getTodayString(t)
             yesterdayString == ToISODate(SetDateMinusOne(t, zone))
             mostRecent == sortedDates[1]
         IN  IF mostRecent # today /\ mostRecent # yesterdayString THEN 0
             ELSE StreakLoop(sortedDates, 1, 0, ParseDate(mostRecent), zone)

----------------------------------------------------------------------------
(* Values shared by the specifications: a specification leaves the state   *)
(* of the components it does not run at these values.                       *)

Op(op, id) == [op |-> op, id |-> id, after |-> "other"]

NoOp == Op("none", 0)

IdleStore ==
    /\ books = <<>>
    /\ storage = [kind |-> "missing"]
    /\ lastOp = NoOp

IdleView ==
    /\ filter = "All"
    /\ searchQuery = <<>>
    /\ view = <<>>

IdleTracker ==
    /\ manualStreak = <<>>
    /\ rev = "calculated"
    /\ datesStorage = [kind |-> "missing"]
    /\ manualStorage = [kind |-> "missing"]
    /\ loadedDates = [t |-> "arr", v |-> <<>>]

----------------------------------------------------------------------------
(* localStorage and JSON.                                                   *)
(*                                                                          *)
(* What getItem returns is modelled by what it parses to: the key is        *)
(* missing (null), the text is empty, the text is not JSON ("garbage"), or  *)
(* the text is JSON for the value `val`.  A JavaScript value whose shape    *)
(* the loaders may have to tell apart is tagged with its type: "null",      *)
(* "num", "str" (a string), "date" (a string of the form YYYY-MM-DD, held   *)
(* as its day number), "obj" (fields in `v`) and "arr" (items in `v`).      *)

Missing == [kind |-> "missing"]
JsonText(val) == [kind |-> "json", val |-> val]
JArr(items) == [t |-> "arr", v |-> items]
JObj(fields) == [t |-> "obj", v |-> fields]
JDate(day) == [t |-> "date", v |-> day]

(* The number of items of the array a stored text holds. *)
SizeOf(stored) ==
    IF stored.kind = "json" /\ stored.val.t = "arr" THEN Len(stored.val.v) ELSE 0

(* localStorage.setItem throws QuotaExceededError when the value does not  *)
(* fit the store's budget.                                                  *)
Fits(stored, quota) == SizeOf(stored) <= quota

(* JSON.stringify(readingDates), readingDates an array of date strings. *)
StringifyDates(dates) == JsonText(JArr([i \in DOMAIN dates |-> JDate(dates[i])]))

(* The readingDates initializer (useReadingStreak.ts:52-59):               *)
(* stored ? JSON.parse(stored) : [], and [] when JSON.parse throws.         *)
initReadingDates(stored) ==
    IF stored.kind \in {"missing", "empty"} THEN JArr(<<>>)
    ELSE IF stored.kind = "garbage" THEN JArr(<<>>)
    ELSE stored.val

(* The items of an array of date strings, as the list the tracker keeps. *)
DatesOf(value) == [i \in DOMAIN value.v |-> value.v[i].v]

----------------------------------------------------------------------------
(* Domain model (types/book.ts, latest revision) and the book store        *)
(* (useBooks, part_005:122-235).  A book is a record; an object spread      *)
(* {...a, ...b} is Merge(a, b).                                             *)

Merge(a, b) ==
    [f \in (DOMAIN a) \cup (DOMAIN b) |-> IF f \in DOMAIN b THEN b[f] ELSE a[f]]

EmptyObject == [f \in {} |-> 0]

(* The value `undefined` of a field that holds a string when it is set. *)
Undefined == "undefined"

(* o.f || dflt on a record whose field may be absent, undefined or "". *)
FieldOr(o, f, dflt) ==
    IF f \in DOMAIN o /\ o[f] \notin {"", Undefined} THEN o[f] ELSE dflt

(* Math.round(x) for the quotient x = a / b of two integers, b > 0: the   *)
(* nearest integer, a half rounded up.  The source computes the quotient in *)
(* double precision; for the page counts of the model it is exact.          *)
RoundQuotient(a, b) == (2 * a + b) \div (2 * b)

(* getProgressPercentage (types/book.ts:75-78). *)
getProgressPercentage(book) ==
    IF book.totalPages = 0 THEN 0
    ELSE RoundQuotient(book.currentPage * 100, book.totalPages)

(* getMilestones (types/book.ts:80-88). *)
Thresholds == <<25, 50, 75, 100>>

getMilestonesAbove(book) ==
    [i \in DOMAIN Thresholds |->
        [milestone |-> Thresholds[i],
         reached |-> getProgressPercentage(book) > Thresholds[i]]]

getMilestones(book) ==
    [i \in DOMAIN Thresholds |->
        [milestone |-> Thresholds[i],
         reached |-> getProgressPercentage(book) >= Thresholds[i]]]

(* NaN, as a value no page count, page or parseInt result of the model can  *)
(* take.  Every comparison with NaN is false.                               *)
NaN == 0 - 1000

isNaN(x) == x = NaN

Less(a, b) == ~isNaN(a) /\ ~isNaN(b) /\ a < b

Greater(a, b) == Less(b, a)

LessEq(a, b) == ~isNaN(a) /\ ~isNaN(b) /\ a <= b

GreaterEq(a, b) == LessEq(b, a)

(* getBookStatus (types/book.ts:70-73). *)
getBookStatusFlag(book) ==
    IF book.status = "later" THEN "later"
    ELSE IF GreaterEq(book.currentPage, book.totalPages) THEN "completed" ELSE "reading"

getBookStatus(book) ==
    IF book.status = "later" THEN "Later"
    ELSE IF GreaterEq(book.currentPage, book.totalPages) THEN "Completed" ELSE "Reading"

(* JSON.stringify of a book: a field whose value is undefined is left   *)
(* out of the text, and a page count that is NaN is written as null.        *)
ToJSONObject(book) ==
    LET kept == {f \in DOMAIN book :
                    ~(f \in {"status", "priority"} /\ book[f] = Undefined)}
    IN  JObj([f \in kept |->
                 IF f = "totalPages" /\ book[f] = NaN THEN [t |-> "null"] ELSE book[f]])

(* JSON.stringify(books): an array of objects. *)
StringifyBooks(bs) == JsonText(JArr([i \in DOMAIN bs |-> ToJSONObject(bs[i])]))

(* {...item} for a parsed JSON item: the fields of an object, nothing for  *)
(* a number, the indexed characters of a string (the model's strings have   *)
(* one character) and the indexed items of an array.                        *)
Spread(item) ==
    IF item.t = "obj" THEN item.v
    ELSE IF item.t = "str" THEN [k \in {"0"} |-> item.v]
    ELSE IF item.t = "arr"
    THEN [k \in {ToString(i - 1) : i \in DOMAIN item.v}
            |-> item.v[CHOOSE i \in DOMAIN item.v : ToString(i - 1) = k]]
    ELSE EmptyObject

(* item.f || dflt: the field of an object, undefined on any other value. *)
ItemFieldOr(item, f, dflt) ==
    IF item.t = "obj" THEN FieldOr(item.v, f, dflt) ELSE dflt

(* item.f || [] for a field that holds an array when present (an array,   *)
(* even an empty one, is truthy).                                           *)
ItemArrayOr(item, f) ==
    IF item.t = "obj" /\ f \in DOMAIN item.v THEN item.v[f] ELSE <<>>

(* The map callback of loadBooks: of the first revision (part_005:57-60), *)
(* which back-fills pageReflections only, and of the latest                 *)
(* (part_005:132-138).                                                      *)
MigrateReflections(item) ==
    Merge(Spread(item), [pageReflections |-> ItemArrayOr(item, "pageReflections")])

Migrate(item) ==
    Merge(Spread(item),
          [pageReflections |-> ItemArrayOr(item, "pageReflections"),
           status |-> ItemFieldOr(item, "status", "reading"),
           priority |-> ItemFieldOr(item, "priority", "none"),
           pdfAnnotations |-> ItemArrayOr(item, "pdfAnnotations")])

(* loadBooks (part_005:127-142).  JSON.parse throws on text that is not    *)
(* JSON; books.map throws a TypeError on a value that is no array and the   *)
(* callback throws one on a null item; the catch returns [].                *)
loadBooks(stored) ==
    IF stored.kind \in {"missing", "empty"} THEN <<>>
    ELSE IF stored.kind = "garbage" THEN <<>>
    ELSE IF stored.val.t # "arr" THEN <<>>
    ELSE IF \E i \in DOMAIN stored.val.v : stored.val.v[i].t = "null" THEN <<>>
    ELSE [i \in DOMAIN stored.val.v |-> Migrate(stored.val.v[i])]

(* The object addBook builds: in the first revision (part_005:79-85),    *)
(* which sets neither status nor priority, and in the latest                *)
(* (part_005:166-175).                                                      *)
NewBookFirstRevision(bookData, t) ==
    Merge(bookData,
          [id |-> t, currentPage |-> 0, notes |-> "", pageReflections |-> <<>>])

NewBook(bookData, t) ==
    Merge(bookData,
          [id |-> t,
           currentPage |-> 0,
           notes |-> "",
           pageReflections |-> <<>>,
           status |-> FieldOr(bookData, "status", "reading"),
           priority |-> FieldOr(bookData, "priority", "none"),
           pdfAnnotations |-> <<>>])

(* The updaters given to setBooks by addBook, updateBook and deleteBook. *)
addBook(prev, bookData, t) == Append(prev, NewBook(bookData, t))

UpsertBook(prev, id, updates) ==
    IF \E i \in DOMAIN prev : prev[i].id = id
    THEN [i \in DOMAIN prev |-> IF prev[i].id = id THEN Merge(prev[i], updates) ELSE prev[i]]
    ELSE Append(prev, Merge([id |-> id], updates))

updateBook(prev, id, updates) ==
    [i \in DOMAIN prev |-> IF prev[i].id = id THEN Merge(prev[i], updates) ELSE prev[i]]

deleteBookOrOldest(prev, id) ==
    IF \E i \in DOMAIN prev : prev[i].id = id
    THEN SelectSeq(prev, LAMBDA book : book.id # id)
    ELSE IF prev = <<>> THEN prev ELSE Tail(prev)

deleteBook(prev, id) == SelectSeq(prev, LAMBDA book : book.id # id)

----------------------------------------------------------------------------
(* Strings and the view of the store (useBooks, part_005:148-221).  A      *)
(* string that is searched or searched for is a sequence of one-character   *)
(* strings.                                                                 *)

LowerOf == [A |-> "a", B |-> "b", D |-> "d", T |-> "t"]

(* String.prototype.toLowerCase. *)
toLowerCase(s) == [i \in DOMAIN s |-> IF s[i] \in DOMAIN LowerOf THEN LowerOf[s[i]] ELSE s[i]]

(* String.prototype.trim: the white space at both ends is removed. *)
RECURSIVE trimStart(_)
trimStart(s) == IF s # <<>> /\ Head(s) = " " THEN trimStart(Tail(s)) ELSE s

RECURSIVE trimEnd(_)
trimEnd(s) ==
    IF s # <<>> /\ s[Len(s)] = " " THEN trimEnd(SubSeq(s, 1, Len(s) - 1)) ELSE s

trim(s) == trimEnd(trimStart(s))

(* String.prototype.includes: q occurs in s as a substring. *)
includes(s, q) ==
    \E i \in 0 .. (Len(s) - Len(q)) : SubSeq(s, i + 1, i + Len(q)) = q

FilterTypes == {"All", "Reading", "Completed", "Later"}

(* priorityOrder (part_005:149-154). *)
priorityOrder == [high |-> 0, medium |-> 1, low |-> 2, none |-> 3]

(* The comparator given to sort (part_005:208-213).  b.id - a.id is NaN    *)
(* when a book has no id, and sort takes a NaN for 0.                       *)
compareIds(a, b) ==
    IF "id" \in DOMAIN a /\ "id" \in DOMAIN b THEN b.id - a.id ELSE 0

compareBooks(a, b) ==
    LET priorityA == priorityOrder[FieldOr(a, "priority", "none")]
        priorityB == priorityOrder[FieldOr(b, "priority", "none")]
    IN  IF priorityA # priorityB THEN priorityA - priorityB
        ELSE IF "id" \in DOMAIN a /\ "id" \in DOMAIN b THEN b.id - a.id ELSE 0

(* Array.prototype.sort is stable: a book goes after the books that the  *)
(* comparator does not put after it.                                        *)
RECURSIVE InsertBook(_, _)
InsertBook(sorted, book) ==
    IF sorted = <<>> THEN <<book>>
    ELSE IF compareBooks(sorted[Len(sorted)], book) <= 0 THEN Append(sorted, book)
    ELSE Append(InsertBook(SubSeq(sorted, 1, Len(sorted) - 1), book), sorted[Len(sorted)])

RECURSIVE SortBooks(_)
SortBooks(bs) ==
    IF bs = <<>> THEN <<>>
    ELSE InsertBook(SortBooks(SubSeq(bs, 1, Len(bs) - 1)), bs[Len(bs)])

(* The two filters of filteredBooks (part_005:194-205). *)
MatchesFilter(book, f) == f = "All" \/ getBookStatus(book) = f

MatchesSearch(book, text) ==
    \/ trim(text) = <<>>
    \/ includes(toLowerCase(book.title), toLowerCase(text))
    \/ includes(toLowerCase(book.author), toLowerCase(text))

(* `result` is the array `books` itself when neither filter applies: each *)
(* Array.prototype.filter makes a new array.                                *)
ResultIsBooks(f, text) == f = "All" /\ trim(text) = <<>>

(* filteredBooks (part_005:190-214): what the memo returns. *)
filteredBooks(bs, f, text) ==
    SortBooks(SelectSeq(SelectSeq(bs, LAMBDA book : MatchesFilter(book, f)),
                        LAMBDA book : MatchesSearch(book, text)))

(* The array `books` after the memo has run: result.sort sorts in place, *)
(* so `books` is sorted when `result` is `books`.                           *)
RenderBooksState(bs, f, text) == IF ResultIsBooks(f, text) THEN SortBooks(bs) ELSE bs

RECURSIVE SumPages(_)
SumPages(bs) == IF bs = <<>> THEN 0 ELSE Head(bs).currentPage + SumPages(Tail(bs))

(* stats (part_005:216-221). *)
stats(bs) ==
    [totalBooks |-> Len(bs),
     completed |-> Len(SelectSeq(bs, LAMBDA book : getBookStatus(book) = "Completed")),
     pagesRead |-> SumPages(bs),
     later |-> Len(SelectSeq(bs, LAMBDA book : getBookStatus(book) = "Later"))]

(* counts (part_007:42-47), over allBooks. *)
counts(allBooks) ==
    [all |-> Len(allBooks),
     reading |-> Len(SelectSeq(allBooks, LAMBDA b : getBookStatus(b) = "Reading")),
     completed |-> Len(SelectSeq(allBooks, LAMBDA b : getBookStatus(b) = "Completed")),
     later |-> Len(SelectSeq(allBooks, LAMBDA b : getBookStatus(b) = "Later"))]

----------------------------------------------------------------------------
(* Spec: the book store (useBooks) mounted on a fresh localStorage.  Every *)
(* action is a call of addBook, updateBook or deleteBook together with the  *)
(* render that follows it, in which the memo of filteredBooks runs          *)
(* (part_005:190-214), and the effect on [books] that saves the list        *)
(* (part_005:161-163).  In Spec the filter and the search text stay as     *)
(* they are at mount ('All' and '') and the updates are page updates;       *)
(* SpecView adds the updates of the status flag and the calls of setFilter  *)
(* and setSearchQuery with the render that follows them, after which no     *)
(* effect runs because `books` is the same array.                           *)

Drafts ==
    {Merge([title |-> <<"T">>, author |-> <<"A">>, totalPages |-> n, coverURL |-> "cover.png"],
           extra) :
        n \in 1..MaxPages,
        extra \in {EmptyObject, [status |-> "later", priority |-> "high"]}}

(* The pages given to an update: the first pages, and a page beyond the  *)
(* range of every book.                                                     *)
PageInputs == {0, 1, MaxPages + 5}

PageUpdates == {[currentPage |-> n] : n \in PageInputs}

Updates == PageUpdates \cup {[status |-> "later"], [status |-> "reading"]}

Ids == 0..MaxClock

(* The texts typed into the search box of the store. *)
SearchTexts == {<<>>, <<"t">>}

BookIds(bs) == {bs[i].id : i \in DOMAIN bs}

Init ==
    /\ pc = "mounted"
    /\ now = 0
    /\ books = RenderBooksState(loadBooks(Missing), "All", <<>>)
    /\ storage = StringifyBooks(books)
    /\ raised = "none"
    /\ lastOp = NoOp
    /\ readingDates = <<>>
    /\ streak = 0
    /\ tz = FixedZone
    /\ IdleTracker
    /\ IdleView

(* saveBooks (part_005:144-146) run by the effect: setItem throws when the *)
(* list does not fit, and nothing catches it.                               *)
SaveEffect(bs) ==
    IF Fits(StringifyBooks(bs), BooksQuota)
    THEN storage' = StringifyBooks(bs) /\ raised' = raised
    ELSE raised' = "QuotaExceededError" /\ storage' = storage

StoreFrame ==
    UNCHANGED <<now, readingDates, streak, manualStreak, rev, tz, datesStorage,
                manualStorage, loadedDates, pc, filter, searchQuery, view>>

AddBook(bookData) ==
    /\ pc = "mounted"
    /\ raised = "none"
    /\ Len(books) < MaxBooks
    /\ books' = RenderBooksState(addBook(books, bookData, now), filter, searchQuery)
    /\ SaveEffect(books')
    /\ lastOp' = Op("add", now)
    /\ StoreFrame

UpdateBook(id, updates) ==
    /\ pc = "mounted"
    /\ raised = "none"
    /\ books' = RenderBooksState(updateBook(books, id, updates), filter, searchQuery)
    /\ SaveEffect(books')
    /\ lastOp' = [op |-> "update", id |-> id,
                  after |-> IF lastOp = [op |-> "delete", id |-> id, after |-> "removed"]
                            THEN "delete" ELSE "other"]
    /\ StoreFrame

DeleteBook(id) ==
    /\ pc = "mounted"
    /\ raised = "none"
    /\ books' = RenderBooksState(deleteBook(books, id), filter, searchQuery)
    /\ SaveEffect(books')
    /\ lastOp' = [op |-> "delete", id |-> id,
                  after |-> IF id \in BookIds(books) THEN "removed"
                            ELSE IF lastOp = [op |-> "delete", id |-> id, after |-> "removed"]
                            THEN "again" ELSE "other"]
    /\ StoreFrame

ViewFrame ==
    UNCHANGED <<storage, now, raised, readingDates, streak, manualStreak, rev, tz,
                datesStorage, manualStorage, loadedDates, pc, view>>

(* setFilter: a call with the current value causes no render. *)
SetFilter(f) ==
    /\ pc = "mounted"
    /\ raised = "none"
    /\ f # filter
    /\ filter' = f
    /\ books' = RenderBooksState(books, f, searchQuery)
    /\ lastOp' = Op("setFilter", 0)
    /\ UNCHANGED searchQuery
    /\ ViewFrame

SetSearchQuery(text) ==
    /\ pc = "mounted"
    /\ raised = "none"
    /\ text # searchQuery
    /\ searchQuery' = text
    /\ books' = RenderBooksState(books, filter, text)
    /\ lastOp' = Op("setSearchQuery", 0)
    /\ UNCHANGED filter
    /\ ViewFrame

(* The clock advances by one tick. *)
Tick ==
    /\ pc = "mounted"
    /\ now < MaxClock
    /\ now' = now + 1
    /\ lastOp' = Op("tick", now + 1)
    /\ UNCHANGED <<books, storage, raised, readingDates, streak, manualStreak,
                   rev, tz, datesStorage, manualStorage, loadedDates, pc,
                   filter, searchQuery, view>>

Next ==
    \/ \E bookData \in Drafts : AddBook(bookData)
    \/ \E id \in Ids, updates \in PageUpdates : UpdateBook(id, updates)
    \/ \E id \in Ids : DeleteBook(id)
    \/ Tick

Spec == Init /\ [][Next]_vars

NextView ==
    \/ \E bookData \in Drafts : AddBook(bookData)
    \/ \E id \in Ids, updates \in Updates : UpdateBook(id, updates)
    \/ \E id \in Ids : DeleteBook(id)
    \/ \E f \in FilterTypes : SetFilter(f)
    \/ \E text \in SearchTexts : SetSearchQuery(text)
    \/ Tick

SpecView == Init /\ [][NextView]_vars

(* C1: the stored currentPage of every book lies in [0, totalPages]       *)
(* after any update.                                                        *)
C1_CurrentPageClamped ==
    \A i \in DOMAIN books :
        books[i].currentPage >= 0 /\ books[i].currentPage <= books[i].totalPages

(* C2: the books of the store have pairwise distinct ids. *)
C2_DistinctIds ==
    \A i, j \in DOMAIN books : i # j => books[i].id # books[j].id

(* C3: an update whose id matches no book leaves the list of books as it  *)
(* was and raises no error; so an update that follows the delete of its id  *)
(* does not bring the book back.                                            *)
C3_UpdateUnknownIsNoOp ==
    [][(lastOp'.op = "update" /\ lastOp'.id \notin BookIds(books))
       => (books' = books /\ raised' = raised)]_vars

(* An update has run on the id that the operation before it deleted, and  *)
(* books remain in the store.                                               *)
C3_Witness ==
    /\ lastOp.op = "update"
    /\ lastOp.after = "delete"
    /\ lastOp.id \notin BookIds(books)
    /\ books # <<>>
    /\ raised = "none"

(* C4: the derived status of a book is Completed exactly when its         *)
(* currentPage has reached its totalPages, whatever its status flag.        *)
C4_CompletedIffPagesReached ==
    \A i \in DOMAIN books :
        (getBookStatus(books[i]) = "Completed")
            <=> (books[i].currentPage >= books[i].totalPages)

(* C9: no error escapes the store, also when a write to the store fails. *)
C9_NoErrorEscapes == raised = "none"

(* C12: whenever the store is at rest and no write has failed, the text  *)
(* under the books key is the serialization of the list in memory.          *)
C12_WriteThrough == raised = "none" => storage = StringifyBooks(books)

(* C15: evaluating the query for a new filter or a new search text leaves *)
(* the list in memory, the order of its books included, and the stored      *)
(* list as they were.                                                       *)
C15_QueryLeavesStore ==
    [][(lastOp'.op \in {"setFilter", "setSearchQuery"})
       => (books' = books /\ storage' = storage)]_vars

(* The derived status as the claims state it: Completed once the pages   *)
(* are reached, whatever the status flag (C4).                              *)
StatusLabel(book) ==
    IF book.currentPage >= book.totalPages THEN "Completed"
    ELSE IF book.status = "later" THEN "Later" ELSE "Reading"

CountLabel(bs, label) == Cardinality({i \in DOMAIN bs : StatusLabel(bs[i]) = label})

(* C16: whatever filter and search text are active, stats counts the     *)
(* whole list: totalBooks is its length, pagesRead the sum of currentPage,  *)
(* completed and later the numbers of books whose derived status is         *)
(* Completed and Later.                                                     *)
C16_StatsOverFullList ==
    /\ stats(books).totalBooks = Len(books)
    /\ stats(books).pagesRead = SumPages(books)
    /\ stats(books).completed = CountLabel(books, "Completed")
    /\ stats(books).later = CountLabel(books, "Later")

(* C30: every book has exactly one derived status, so the counts of the  *)
(* tabs partition the list: Reading + Completed + Later is totalBooks, and  *)
(* the completed and later numbers of stats are the counts of the Completed *)
(* and Later tabs.                                                          *)
C30_TabCountsPartition ==
    /\ \A i \in DOMAIN books : getBookStatus(books[i]) \in FilterTypes \ {"All"}
    /\ counts(books).reading + counts(books).completed + counts(books).later
          = stats(books).totalBooks
    /\ counts(books).all = stats(books).totalBooks
    /\ stats(books).completed = counts(books).completed
    /\ stats(books).later = counts(books).later

(* A list with a book of each of two tabs and none of the third. *)
C30_Witness ==
    /\ lastOp.op = "update"
    /\ counts(books).later = 1
    /\ counts(books).completed = 1
    /\ counts(books).reading = 0

(* The list without its k-th book. *)
Without(bs, k) == [i \in 1 .. (Len(bs) - 1) |-> bs[IF i < k THEN i ELSE i + 1]]

C18_DeleteRemoves ==
    [][(lastOp'.op = "delete") =>
          /\ books' = SelectSeq(books, LAMBDA book : book.id # lastOp'.id)
          /\ lastOp'.id \notin BookIds(books) => (books' = books /\ raised' = raised)
          /\ (lastOp.op = "delete" /\ lastOp.id = lastOp'.id) => books' = books]_vars

(* The same id has been deleted twice in a row; the first delete removed *)
(* a book and other books remain.                                           *)
C18_Witness ==
    /\ lastOp.op = "delete"
    /\ lastOp.after = "again"
    /\ lastOp.id \notin BookIds(books)
    /\ books # <<>>
    /\ raised = "none"

(* C19: the progress percentage of every book of the store is an integer *)
(* from 0 to 100.                                                           *)
C19_ProgressInRange ==
    \A i \in DOMAIN books :
        /\ getProgressPercentage(books[i]) >= 0
        /\ getProgressPercentage(books[i]) <= 100

----------------------------------------------------------------------------
(* SpecCalc: the streak calculator as a pure function.  The initial states *)
(* draw the list of dates, the instant of the call and the host time zone;  *)
(* the one action applies calculateStreak.                                  *)

RECURSIVE SeqsUpTo(_, _)
SeqsUpTo(S, n) ==
    IF n = 0 THEN {<<>>}
    ELSE LET shorter == SeqsUpTo(S, n - 1)
         IN  shorter \cup {Append(s, x) : s \in shorter, x \in S}

Range(s) == {s[i] : i \in DOMAIN s}

(* The calculator is called on day MaxDay, at midnight or at noon UTC. *)
CalcNows == {ParseDate(MaxDay), ParseDate(MaxDay) + 12}

InitCalc ==
    /\ pc = "input"
    /\ readingDates \in SeqsUpTo(0..MaxDay, MaxDates)
    /\ now \in CalcNows
    /\ tz \in TimeZones
    /\ streak = 0
    /\ raised = "none"
    /\ IdleStore
    /\ IdleTracker
    /\ IdleView

Calculate ==
    /\ pc = "input"
    /\ streak' = calculateStreak(readingDates, now, tz)
    /\ pc' = "done"
    /\ UNCHANGED <<books, storage, now, raised, lastOp, readingDates,
                   manualStreak, rev, tz, datesStorage, manualStorage, loadedDates,
                   filter, searchQuery, view>>

NextCalc == Calculate

SpecCalc == InitCalc /\ [][NextCalc]_vars

(* The most recent day of a non-empty list, and the length of the maximal  *)
(* run of consecutive days of the list that ends at day d.                  *)
MostRecentDay(dates) == CHOOSE d \in Range(dates) : \A e \in Range(dates) : e <= d

RECURSIVE RunEndingAt(_, _)
RunEndingAt(days, d) == IF d \in days THEN 1 + RunEndingAt(days, d - 1) ELSE 0

(* C5: when the most recent day of the list is today or yesterday the    *)
(* calculator returns the length of the run of consecutive days ending at   *)
(* the most recent day, so no day older than the first missing day is       *)
(* counted.  Stated for a host in the fixed zone, where a day of the wall   *)
(* clock is a day of UTC.                                                   *)
C5_StopsAtFirstGap ==
    (/\ pc = "done"
     /\ tz = FixedZone
     /\ readingDates # <<>>
     /\ MostRecentDay(readingDates) \in {getTodayString(now), getTodayString(now) - 1})
    => streak = RunEndingAt(Range(readingDates), MostRecentDay(readingDates))

IsListOf(dates, days) == Len(dates) = Cardinality(days) /\ Range(dates) = days

(* C6: the four streak scenarios: {today, yesterday, day before} gives 3,  *)
(* {today, 3 days ago} gives 1, the empty list gives 0 and {2 days ago}     *)
(* alone gives 0.                                                           *)
C6_StreakScenarios ==
    LET today == getTodayString(now)
    IN  pc = "done" =>
          /\ IsListOf(readingDates, {today, today - 1, today - 2}) => streak = 3
          /\ IsListOf(readingDates, {today, today - 3}) => streak = 1
          /\ readingDates = <<>> => streak = 0
          /\ IsListOf(readingDates, {today - 2}) => streak = 0

(* The list with every entry after the first one for its day removed. *)
RECURSIVE Dedup(_)
Dedup(dates) ==
    IF dates = <<>> THEN <<>>
    ELSE LET front == Dedup(SubSeq(dates, 1, Len(dates) - 1))
             last == dates[Len(dates)]
         IN  IF last \in Range(front) THEN front ELSE Append(front, last)

(* C21: a day that occurs more than once in the list is counted once: the *)
(* calculator returns for a list what it returns for the list with the      *)
(* duplicates removed, in every host time zone.                             *)
C21_DuplicatesCountedOnce ==
    pc = "done" => streak = calculateStreak(Dedup(readingDates), now, tz)

C21_Witness ==
    /\ pc = "done"
    /\ Dedup(readingDates) # readingDates
    /\ Cardinality(Range(readingDates)) >= 2
    /\ streak >= 2

----------------------------------------------------------------------------
(* SpecStreak: the reading-activity tracker (useReadingStreak), mounted on *)
(* a fresh store.  The source holds two revisions of the hook: the         *)
(* "calculated" one keeps `streak` in a state set by the effect that saves  *)
(* the dates, the "manual" one exposes a counter set by setStreak.          *)

MaxNow == (MaxDay + 1) * TicksPerDay - 1

(* The streak the hook returns. *)
ExposedStreak ==
    IF rev = "calculated" THEN streak
    ELSE IF manualStreak = <<>> THEN 0 ELSE manualStreak[1]

InitStreak ==
    /\ pc = "mounted"
    /\ rev \in {"calculated", "manual"}
    /\ tz \in TimeZones
    /\ now = 0
    /\ datesStorage = StringifyDates(<<>>)
    /\ readingDates = DatesOf(initReadingDates(Missing))
    /\ streak = calculateStreak(<<>>, 0, tz)
    /\ manualStreak = <<>>
    /\ manualStorage = Missing
    /\ loadedDates = initReadingDates(Missing)
    /\ raised = "none"
    /\ IdleStore
    /\ IdleView

(* The updater given to setReadingDates (useReadingStreak.ts:72-77). *)
AppendAlways(prev, today) == Append(prev, today)

KeepTodayOnly(prev, today) == IF today \in Range(prev) THEN prev ELSE <<today>>

markTodayAsReadUpdater(prev, today) ==
    IF today \in Range(prev) THEN prev ELSE Append(prev, today)

(* markTodayAsRead and, when the state changed, the effect on             *)
(* [readingDates]: setItem, then (calculated revision) setStreak.  An       *)
(* updater that returns `prev` itself causes no render and no effect.       *)
MarkTodayAsRead ==
    /\ pc = "mounted"
    /\ raised = "none"
    /\ LET today == getTodayString(now)
           next == markTodayAsReadUpdater(readingDates, today)
       IN  /\ readingDates' = next
           /\ lastOp' = Op("mark", IF next = readingDates THEN 0 ELSE 1)
           /\ IF next = readingDates
              THEN UNCHANGED <<datesStorage, streak, raised>>
              ELSE IF Fits(StringifyDates(next), DatesQuota)
              THEN /\ datesStorage' = StringifyDates(next)
                   /\ streak' = IF rev = "calculated"
                                THEN calculateStreak(next, now, tz) ELSE streak
                   /\ raised' = raised
              ELSE /\ raised' = "QuotaExceededError"
                   /\ UNCHANGED <<datesStorage, streak>>
    /\ UNCHANGED <<books, storage, now, manualStreak, rev, tz, manualStorage,
                   loadedDates, pc, filter, searchQuery, view>>

(* setStreak of the manual revision (part_006:53-56) and the effect on    *)
(* [manualStreak] (part_006:30-35).                                         *)
SetStreak(value) ==
    /\ pc = "mounted"
    /\ raised = "none"
    /\ rev = "manual"
    /\ manualStreak' = <<Max(0, value)>>
    /\ manualStorage' = JsonText([t |-> "num", v |-> Max(0, value)])
    /\ lastOp' = Op("setStreak", value)
    /\ UNCHANGED <<books, storage, now, raised, readingDates, streak, rev, tz,
                   datesStorage, loadedDates, pc, filter, searchQuery, view>>

(* Time passes: half a day or a day. *)
AdvanceClock(dt) ==
    /\ pc = "mounted"
    /\ now + dt <= MaxNow
    /\ now' = now + dt
    /\ lastOp' = Op("clock", dt)
    /\ UNCHANGED <<books, storage, raised, readingDates, streak, manualStreak,
                   rev, tz, datesStorage, manualStorage, loadedDates, pc,
                   filter, searchQuery, view>>

NextStreak ==
    \/ MarkTodayAsRead
    \/ \E value \in (0 - 1) .. 2 : SetStreak(value)
    \/ \E dt \in {12, TicksPerDay} : AdvanceClock(dt)

SpecStreak == InitStreak /\ [][NextStreak]_vars

Count(s, x) == Cardinality({i \in DOMAIN s : s[i] = x})

(* C7: at every point the streak the tracker exposes is the streak        *)
(* calculator applied to the current reading dates and the current day.     *)
C7_StreakIsDerived ==
    raised = "none" => ExposedStreak = calculateStreak(readingDates, now, tz)

C22_DatesAppendOnly ==
    [][/\ Len(readingDates') >= Len(readingDates)
       /\ SubSeq(readingDates', 1, Len(readingDates)) = readingDates
       /\ \A d \in Range(readingDates') : Count(readingDates', d) = 1]_vars

C22_Witness ==
    /\ lastOp = Op("mark", 1)
    /\ Len(readingDates) >= 3
    /\ getTodayString(now) = readingDates[Len(readingDates)]

----------------------------------------------------------------------------
(* SpecLoad: the two loaders on whatever the store holds when the page is  *)
(* opened.  The initial states draw the text under each key; Mount runs the *)
(* state initializers of useBooks and useReadingStreak; the first render    *)
(* then runs the body of useReadingStreak and, when that raised nothing,    *)
(* renders the books.                                                       *)

WellFormedBook ==
    [id |-> 0, title |-> <<"T">>, author |-> <<"A">>, totalPages |-> 1, currentPage |-> 1,
     coverURL |-> "cover.png", notes |-> "", pageReflections |-> <<>>,
     status |-> "later", priority |-> "high", pdfAnnotations |-> <<>>]

(* A book saved by the first revision of the store (part_005:78-86). *)
OldSchemaBook ==
    [id |-> 0, title |-> <<"T">>, author |-> <<"A">>, totalPages |-> 1, currentPage |-> 0,
     coverURL |-> "cover.png", notes |-> "", pageReflections |-> <<>>]

JNull == [t |-> "null"]
JNum == [t |-> "num", v |-> 5]
JStr == [t |-> "str", v |-> "x"]

JsonValues ==
    {JNull, JNum, JStr, JObj(EmptyObject), JObj([a |-> 1]),
     JArr(<<>>), JArr(<<JNull>>), JArr(<<JNum>>), JArr(<<JStr>>),
     JArr(<<JObj(EmptyObject)>>), JArr(<<JArr(<<>>)>>),
     JArr(<<JDate(0)>>), JArr(<<JDate(0), JDate(1)>>), JArr(<<JDate(0), JNum>>),
     JArr(<<JObj(WellFormedBook)>>), JArr(<<JObj(OldSchemaBook)>>),
     JArr(<<JObj(WellFormedBook), JNum>>)}

StoredTexts ==
    {Missing, [kind |-> "empty"], [kind |-> "garbage"]}
    \cup {JsonText(val) : val \in JsonValues}

InitLoad ==
    /\ pc = "stored"
    /\ storage \in StoredTexts
    /\ datesStorage \in StoredTexts
    /\ books = <<>>
    /\ loadedDates = JArr(<<>>)
    /\ raised = "none"
    /\ lastOp = NoOp
    /\ now = 0
    /\ tz = FixedZone
    /\ readingDates = <<>>
    /\ streak = 0
    /\ manualStreak = <<>>
    /\ manualStorage = Missing
    /\ rev = "calculated"
    /\ IdleView

LoadFrame ==
    UNCHANGED <<storage, now, readingDates, streak, manualStreak, rev, tz,
                datesStorage, manualStorage, filter, searchQuery, view>>

(* useState(() => loadBooks()) and the readingDates initializer; the     *)
(* memo of filteredBooks runs in the same render.                           *)
Mount ==
    /\ pc = "stored"
    /\ books' = RenderBooksState(loadBooks(storage), filter, searchQuery)
    /\ loadedDates' = initReadingDates(datesStorage)
    /\ pc' = "loaded"
    /\ lastOp' = Op("mount", 0)
    /\ UNCHANGED raised
    /\ LoadFrame

(* The body of useReadingStreak reads readingDates.includes(today)        *)
(* (useReadingStreak.ts:81): a TypeError on a value that is neither an      *)
(* array nor a string.                                                      *)
RenderTracker ==
    /\ pc = "loaded"
    /\ raised' = IF loadedDates.t \in {"arr", "str", "date"} THEN "none" ELSE "TypeError"
    /\ pc' = "tracker rendered"
    /\ lastOp' = Op("tracker", 0)
    /\ UNCHANGED <<books, loadedDates>>
    /\ LoadFrame

(* Each book is rendered by a BookDetailDialog, whose first line reads    *)
(* book.currentPage.toString() (part_002:26): a TypeError on a book that    *)
(* has no currentPage.                                                      *)
RenderBooks ==
    /\ pc = "tracker rendered"
    /\ raised = "none"
    /\ raised' = IF \E i \in DOMAIN books : "currentPage" \notin DOMAIN books[i]
                 THEN "TypeError" ELSE "none"
    /\ pc' = "books rendered"
    /\ lastOp' = Op("books", 0)
    /\ UNCHANGED <<books, loadedDates>>
    /\ LoadFrame

NextLoad == Mount \/ RenderTracker \/ RenderBooks

SpecLoad == InitLoad /\ [][NextLoad]_vars

(* The stored text is a JSON array whose items all have one of the types. *)
IsArrayOf(stored, types) ==
    /\ stored.kind = "json"
    /\ stored.val.t = "arr"
    /\ \A i \in DOMAIN stored.val.v : stored.val.v[i].t \in types

(* C10: when the text under a key is missing, is not JSON, or is JSON of  *)
(* the wrong shape (no array, or an array with an item that is no record),  *)
(* the loader of that key returns an empty collection, and no error is      *)
(* raised then or when the loaded value is used.                            *)
C10_LoadRecovers ==
    pc # "stored" =>
        /\ ~IsArrayOf(storage, {"obj"}) => books = <<>>
        /\ ~IsArrayOf(datesStorage, {"date", "str"}) => loadedDates = JArr(<<>>)
        /\ raised = "none"

----------------------------------------------------------------------------
(* SpecRoundTrip: saveBooks followed by loadBooks, as a function of the    *)
(* list that is saved.  The initial states draw the list from books of the  *)
(* current schema and books as older revisions of the store wrote them.     *)

MaxStored == 2      \* length of the lists that are saved and loaded

(* A book of the current schema with reflections and annotations. *)
AnnotatedBook ==
    [id |-> 1, title |-> <<"D">>, author |-> <<"B">>, totalPages |-> 2, currentPage |-> 1,
     coverURL |-> "cover.png", notes |-> "n",
     pageReflections |-> <<[page |-> 1, text |-> "x"]>>,
     status |-> "reading", priority |-> "none", pdfURL |-> "book.pdf",
     pdfAnnotations |-> <<[id |-> "a", page |-> 1, type |-> "note"]>>]

(* A book saved before pageReflections existed. *)
FirstSchemaBook ==
    [id |-> 2, title |-> <<"T">>, author |-> <<"A">>, totalPages |-> 1, currentPage |-> 0,
     coverURL |-> "cover.png", notes |-> ""]

(* A book saved with status and priority but without pdfAnnotations. *)
NoAnnotationsBook ==
    [id |-> 3, title |-> <<"T">>, author |-> <<"A">>, totalPages |-> 1, currentPage |-> 1,
     coverURL |-> "cover.png", notes |-> "", pageReflections |-> <<>>,
     status |-> "later", priority |-> "low"]

StoredBooks ==
    {WellFormedBook, AnnotatedBook, OldSchemaBook, FirstSchemaBook, NoAnnotationsBook,
     Merge(OldSchemaBook, [status |-> Undefined, priority |-> "medium"]),
     Merge(WellFormedBook, [id |-> 4, status |-> "reading"]),
     Merge(AnnotatedBook, [id |-> 5, priority |-> "high"]),
     Merge(FirstSchemaBook, [id |-> 6, status |-> "later"])}

InitRoundTrip ==
    /\ pc = "input"
    /\ books \in SeqsUpTo(StoredBooks, MaxStored)
    /\ storage = Missing
    /\ raised = "none"
    /\ lastOp = NoOp
    /\ now = 0
    /\ tz = FixedZone
    /\ readingDates = <<>>
    /\ streak = 0
    /\ IdleTracker
    /\ IdleView

(* saveBooks(books), then loadBooks(). *)
SaveThenLoad ==
    /\ pc = "input"
    /\ SaveEffect(books)
    /\ view' = IF raised' = "none" THEN loadBooks(storage') ELSE <<>>
    /\ pc' = "done"
    /\ lastOp' = Op("saveThenLoad", 0)
    /\ UNCHANGED <<books, now, readingDates, streak, manualStreak, rev, tz,
                   datesStorage, manualStorage, loadedDates, filter, searchQuery>>

NextRoundTrip == SaveThenLoad

SpecRoundTrip == InitRoundTrip /\ [][NextRoundTrip]_vars

(* The fields that loading back-fills, with their documented defaults. *)
BackfillDefaults ==
    [pageReflections |-> <<>>, status |-> "reading", priority |-> "none",
     pdfAnnotations |-> <<>>]

(* The fields a book holds a value for. *)
FieldsSet(book) ==
    {f \in DOMAIN book : ~(f \in {"status", "priority"} /\ book[f] = Undefined)}

(* C11: load after save returns, book by book and in the same order, the  *)
(* saved book with exactly the back-filled fields it lacks set to their     *)
(* defaults and every field it has unchanged; so a book that has all the    *)
(* back-filled fields comes back value-equal.                               *)
C11_RoundTrip ==
    (pc = "done" /\ raised = "none") =>
        /\ Len(view) = Len(books)
        /\ \A i \in DOMAIN books :
              /\ DOMAIN view[i] = FieldsSet(books[i]) \cup DOMAIN BackfillDefaults
              /\ \A f \in FieldsSet(books[i]) : view[i][f] = books[i][f]
              /\ \A f \in (DOMAIN BackfillDefaults) \ FieldsSet(books[i]) :
                    view[i][f] = BackfillDefaults[f]
              /\ (DOMAIN BackfillDefaults \subseteq FieldsSet(books[i]))
                    => view[i] = books[i]

(* A list of a book of the current schema and a book of an older schema  *)
(* has been saved and loaded.                                               *)
C11_Witness ==
    /\ pc = "done"
    /\ raised = "none"
    /\ lastOp.op = "saveThenLoad"
    /\ Len(books) = 2
    /\ DOMAIN BackfillDefaults \subseteq FieldsSet(books[1])
    /\ FieldsSet(books[2]) \cap DOMAIN BackfillDefaults = {}
    /\ view[2].priority = "none"

----------------------------------------------------------------------------
(* SpecQuery: filteredBooks as a function of the list of books, the filter *)
(* and the search text.  The initial states draw the three; the one action  *)
(* runs the memo, which returns the view and sorts `books` itself when the  *)
(* view is the same array.                                                  *)

MaxListed == 3      \* length of the lists that are queried

ListedBook(id, priority, title, author, status, currentPage) ==
    [id |-> id, title |-> title, author |-> author, totalPages |-> 2,
     currentPage |-> currentPage, coverURL |-> "cover.png", notes |-> "",
     pageReflections |-> <<>>, status |-> status, priority |-> priority,
     pdfAnnotations |-> <<>>]

(* Two of the books have the same priority and the same id. *)
ListedBooks ==
    {ListedBook(1, "high", <<"D", "a">>, <<"B">>, "reading", 0),
     ListedBook(2, "none", <<"d">>, <<"A">>, "reading", 2),
     ListedBook(2, "none", <<"T">>, <<"b">>, "later", 0),
     ListedBook(3, "medium", <<"a", "T">>, <<"t">>, "later", 2),
     ListedBook(0, "low", <<"B", " ", "a">>, <<"d", "b">>, "reading", 1),
     ListedBook(3, "high", <<"t">>, <<"A", "d">>, "reading", 2)}

QueryTexts == {<<>>, <<" ">>, <<"D">>, <<"b">>, <<" ", "a">>, <<"a", "t">>}

InitQuery ==
    /\ pc = "input"
    /\ books \in SeqsUpTo(ListedBooks, MaxListed)
    /\ filter \in FilterTypes
    /\ searchQuery \in QueryTexts
    /\ view = <<>>
    /\ storage = Missing
    /\ raised = "none"
    /\ lastOp = NoOp
    /\ now = 0
    /\ tz = FixedZone
    /\ readingDates = <<>>
    /\ streak = 0
    /\ IdleTracker

(* The memo of filteredBooks; `input` keeps the list it was given. *)
Query ==
    /\ pc = "input"
    /\ view' = [input |-> books, result |-> filteredBooks(books, filter, searchQuery)]
    /\ books' = RenderBooksState(books, filter, searchQuery)
    /\ pc' = "done"
    /\ lastOp' = Op("query", 0)
    /\ UNCHANGED <<storage, now, raised, readingDates, streak, manualStreak, rev, tz,
                   datesStorage, manualStorage, loadedDates, filter, searchQuery>>

NextQuery == Query

SpecQuery == InitQuery /\ [][NextQuery]_vars

(* The rank of a priority: high before medium before low before none. *)
Rank(priority) ==
    CASE priority = "high" -> 0
      [] priority = "medium" -> 1
      [] priority = "low" -> 2
      [] OTHER -> 3

SameKeys(a, b) == Rank(a.priority) = Rank(b.priority) /\ a.id = b.id

(* s is a rearrangement of t that keeps books of equal priority and equal *)
(* id in the order they have in t.                                          *)
StableRearrangement(s, t) ==
    /\ Len(s) = Len(t)
    /\ \E p \in [DOMAIN s -> DOMAIN t] :
          /\ \A i, j \in DOMAIN s : i # j => p[i] # p[j]
          /\ \A i \in DOMAIN s : s[i] = t[p[i]]
          /\ \A i, j \in DOMAIN s : (i < j /\ SameKeys(s[i], s[j])) => p[i] < p[j]

(* C13: the query for 'All' and a blank search text returns every book of *)
(* the list, by priority rank and, within a rank, by descending id, and     *)
(* books of equal rank and equal id in the order of the list.               *)
C13_QueryAllSorted ==
    (pc = "done" /\ filter = "All" /\ trim(searchQuery) = <<>>) =>
        /\ StableRearrangement(view.result, view.input)
        /\ \A i, j \in DOMAIN view.result :
              i < j =>
                \/ Rank(view.result[i].priority) < Rank(view.result[j].priority)
                \/ /\ Rank(view.result[i].priority) = Rank(view.result[j].priority)
                   /\ view.result[i].id >= view.result[j].id

(* The query for 'All' has run on a list of three books that was not in  *)
(* order and holds two books of equal priority and equal id.                *)
C13_Witness ==
    /\ pc = "done"
    /\ filter = "All"
    /\ searchQuery = <<" ">>
    /\ Len(view.input) = 3
    /\ view.result # view.input
    /\ \E i, j \in DOMAIN view.input :
          i # j /\ view.input[i] # view.input[j] /\ SameKeys(view.input[i], view.input[j])

(* The book is one the claim expects from the query. *)
Selected(book, f, text) ==
    /\ f = "All" \/ StatusLabel(book) = f
    /\ \/ trim(text) = <<>>
       \/ includes(toLowerCase(book.title), toLowerCase(text))
       \/ includes(toLowerCase(book.author), toLowerCase(text))

(* C14: the query returns exactly the books of the list whose derived     *)
(* status is the filter (every book for 'All') and, when the search text is *)
(* not blank, whose title or author contains it, letter case ignored.       *)
C14_QuerySelects ==
    pc = "done" =>
        StableRearrangement(view.result,
            SelectSeq(view.input, LAMBDA book : Selected(book, filter, searchQuery)))

----------------------------------------------------------------------------
(* SpecDerived: the derived fields of one book (types/book.ts:75-88), as   *)
(* MilestoneProgress computes them.  The initial states draw the pages of   *)
(* the book, the values that updateBook stores without a range check        *)
(* included.                                                                *)

MaxTotal == 8       \* totalPages of the book is in 0 .. MaxTotal

InitDerived ==
    /\ pc = "input"
    /\ \E total \in 0 .. MaxTotal, page \in (0 - 1) .. (MaxTotal + 1) :
          books = <<Merge(WellFormedBook, [totalPages |-> total, currentPage |-> page])>>
    /\ view = <<>>
    /\ filter = "All"
    /\ searchQuery = <<>>
    /\ storage = Missing
    /\ raised = "none"
    /\ lastOp = NoOp
    /\ now = 0
    /\ tz = FixedZone
    /\ readingDates = <<>>
    /\ streak = 0
    /\ IdleTracker

(* MilestoneProgress.tsx:18-19. *)
Derive ==
    /\ pc = "input"
    /\ view' = [milestones |-> getMilestones(books[1]),
                progress |-> getProgressPercentage(books[1])]
    /\ pc' = "done"
    /\ lastOp' = Op("derive", 0)
    /\ UNCHANGED <<books, storage, now, raised, readingDates, streak, manualStreak,
                   rev, tz, datesStorage, manualStorage, loadedDates, filter,
                   searchQuery>>

NextDerived == Derive

SpecDerived == InitDerived /\ [][NextDerived]_vars

(* C20: the milestones are those of the thresholds 25, 50, 75 and 100;   *)
(* each is reached exactly when the progress percentage is at least its     *)
(* threshold, so a reached milestone has every smaller one reached.         *)
C20_MilestonesMonotonic ==
    pc = "done" =>
        /\ [i \in DOMAIN view.milestones |-> view.milestones[i].milestone]
              = <<25, 50, 75, 100>>
        /\ \A i \in DOMAIN view.milestones :
              view.milestones[i].reached
                  <=> (getProgressPercentage(books[1]) >= view.milestones[i].milestone)
        /\ \A i, j \in DOMAIN view.milestones :
              (view.milestones[i].milestone <= view.milestones[j].milestone
               /\ view.milestones[j].reached) => view.milestones[i].reached

(* The milestones of a book at exactly 75 percent: the first three are    *)
(* reached and the last is not.                                             *)
C20_Witness ==
    /\ pc = "done"
    /\ lastOp.op = "derive"
    /\ view.progress = 75
    /\ view.milestones[3].reached
    /\ ~view.milestones[4].reached

----------------------------------------------------------------------------
(* SpecCover: the store called with the cover addresses a caller can give: *)
(* an address or the empty string (the type of coverURL is string).         *)

CoverDrafts ==
    {[title |-> <<"T">>, author |-> <<"A">>, totalPages |-> 1, coverURL |-> c] :
        c \in {"cover.png", ""}}

CoverUpdates == {[coverURL |-> c] : c \in {"other.png", ""}}

NextCover ==
    \/ \E bookData \in CoverDrafts : AddBook(bookData)
    \/ \E id \in Ids, updates \in CoverUpdates : UpdateBook(id, updates)
    \/ \E id \in Ids : DeleteBook(id)
    \/ Tick

SpecCover == Init /\ [][NextCover]_vars

(* C23: after an add or an update on the store with an empty coverURL the *)
(* stored coverURL is the fixed placeholder image address, never the empty  *)
(* string: no stored book has the empty string for its cover.               *)
C23_CoverNeverEmpty ==
    \A i \in DOMAIN books : books[i].coverURL # ""

----------------------------------------------------------------------------
(* The texts of the number inputs of the forms.  A text is a sequence of   *)
(* one-character strings.  parseInt reads the longest prefix that is an     *)
(* optional sign and digits and gives NaN when there is no digit; a number  *)
(* input holds a text the HTML standard calls a valid floating-point number *)
(* (an optional "-", digits and/or "." digits, an optional exponent) or the *)
(* empty string, and its numeric value is the value of that notation.       *)

DigitChars == <<"0", "1", "2", "3", "4", "5", "6", "7", "8", "9">>

IsDigit(c) == \E i \in DOMAIN DigitChars : DigitChars[i] = c

DigitOf(c) == (CHOOSE i \in DOMAIN DigitChars : DigitChars[i] = c) - 1

(* The longest prefix of s made of digits. *)
RECURSIVE DigitsPrefix(_)
DigitsPrefix(s) ==
    IF s = <<>> \/ ~IsDigit(Head(s)) THEN <<>>
    ELSE <<Head(s)>> \o DigitsPrefix(Tail(s))

RECURSIVE DigitsValue(_)
DigitsValue(ds) ==
    IF ds = <<>> THEN 0
    ELSE 10 * DigitsValue(SubSeq(ds, 1, Len(ds) - 1)) + DigitOf(ds[Len(ds)])

(* parseInt(text, 10) and parseInt(text): the texts of the model have no   *)
(* "0x" prefix, so the two agree.                                           *)
parseInt(text) ==
    LET s == trimStart(text)
        signed == s # <<>> /\ Head(s) \in {"-", "+"}
        ds == DigitsPrefix(IF signed THEN Tail(s) ELSE s)
    IN  IF ds = <<>> THEN NaN
        ELSE IF signed /\ Head(s) = "-" THEN 0 - DigitsValue(ds)
        ELSE DigitsValue(ds)

(* One step of reading a floating-point notation: `at` is the part of the  *)
(* notation the character before was in, `tenths` ten times the value of    *)
(* the digits read so far (one fraction digit is kept), `exp` the exponent. *)
ScanStep(acc, c) ==
    IF IsDigit(c)
    THEN IF acc.at \in {"start", "sign", "int"}
         THEN [acc EXCEPT !.at = "int", !.tenths = 10 * acc.tenths + 10 * DigitOf(c)]
         ELSE IF acc.at = "dot"
         THEN [acc EXCEPT !.at = "frac", !.tenths = acc.tenths + DigitOf(c)]
         ELSE IF acc.at = "frac" THEN acc
         ELSE IF acc.at \in {"e", "esign", "exp"}
         THEN [acc EXCEPT !.at = "exp", !.exp = 10 * acc.exp + DigitOf(c)]
         ELSE [acc EXCEPT !.at = "bad"]
    ELSE IF c = "-" /\ acc.at = "start" THEN [acc EXCEPT !.at = "sign", !.neg = TRUE]
    ELSE IF c = "." /\ acc.at \in {"start", "sign", "int"} THEN [acc EXCEPT !.at = "dot"]
    ELSE IF c \in {"e", "E"} /\ acc.at \in {"int", "frac"} THEN [acc EXCEPT !.at = "e"]
    ELSE IF c \in {"-", "+"} /\ acc.at = "e"
    THEN [acc EXCEPT !.at = "esign", !.eneg = (c = "-")]
    ELSE [acc EXCEPT !.at = "bad"]

RECURSIVE Scan(_, _)
Scan(acc, s) == IF s = <<>> THEN acc ELSE Scan(ScanStep(acc, Head(s)), Tail(s))

ScanNumber(text) ==
    Scan([at |-> "start", neg |-> FALSE, tenths |-> 0, exp |-> 0, eneg |-> FALSE], text)

(* A valid floating-point number of the HTML standard: an optional "-",    *)
(* digits and/or "." and digits, an optional exponent.                      *)
IsValidNumber(text) == ScanNumber(text).at \in {"int", "frac", "exp"}

(* The value sanitization of input type=number: a text that is no valid    *)
(* floating-point number reads as the empty string.                         *)
NumberInputValue(text) == IF IsValidNumber(text) THEN text ELSE <<>>

RECURSIVE PowerOfTen(_)
PowerOfTen(n) == IF n = 0 THEN 1 ELSE 10 * PowerOfTen(n - 1)

(* Ten times the numeric value of a valid text that has at most one        *)
(* fraction digit and no negative exponent, as the texts of the model have. *)
TenTimesValue(text) ==
    LET n == ScanNumber(text)
    IN  (IF n.neg THEN 0 - 1 ELSE 1) * n.tenths * PowerOfTen(n.exp)

(* The constraint validation a form runs before it fires its submit event  *)
(* on <input type="number" min={min}> (the step is 1 and the step base is   *)
(* min; the input is not required): the value is empty, or a number that is *)
(* at least min and min plus a whole number of steps.                       *)
SatisfiesMinAndStep(value, min) ==
    \/ value = <<>>
    \/ /\ TenTimesValue(value) >= 10 * min
       /\ (TenTimesValue(value) - 10 * min) % 10 = 0

(* Number.prototype.toString of a page count: decimal digits, or "NaN". *)
RECURSIVE DigitsOf(_)
DigitsOf(n) ==
    IF n < 10 THEN <<DigitChars[n + 1]>>
    ELSE Append(DigitsOf(n \div 10), DigitChars[(n % 10) + 1])

toString(n) == IF isNaN(n) THEN <<"N", "a", "N">> ELSE DigitsOf(n)

----------------------------------------------------------------------------
(* The page (Index, part_007) with its forms and dialogs: the add form     *)
(* (AddBookForm), and for each listed book a card (BookCard) with the edit  *)
(* form (EditBookForm) and the detail dialog (BookDetailDialog, part_002).  *)
(* The page gives the forms handleAddBook and handleUpdateBook, which call  *)
(* the store and then markTodayAsRead, and gives the cards deleteBook.  The *)
(* filter and the search text stay as they are at mount, so every book of   *)
(* the store has a card.  `view` holds, for each card, the currentPageInput *)
(* state of its detail dialog.                                              *)
(*                                                                          *)
(* A submit of the add form is a user event of its own: it happens at least *)
(* one tick of the clock after the event before it.  The form is submitted  *)
(* in the first MaxEvents ticks of the clock.                               *)

MaxEvents == 1

MaxReflections == 2

(* The days after the first on which the page is used. *)
MaxVisits == 1

(* The fixed placeholder image address of the forms. *)
PlaceholderCover == <<"placeholder">>

(* The ids of the cards: the instants at which a book can be added. *)
CardIds == 1 .. MaxEvents

Titles == {<<"T">>, <<" ">>}

CoverTexts == {<<" ">>}

TotalPagesTexts ==
    {<<>>, <<"1">>, <<"2">>, <<".", "5">>, <<".", "5", "e", "1">>}

PageTexts == {<<>>, <<"0">>, <<"1">>, <<"3">>, <<"-", "1">>}

Topics == {<<"t">>, <<" ">>}

ReflectionPageTexts == {<<>>, <<"0">>, <<"1">>, <<"2">>}

InitUI ==
    /\ pc = "mounted"
    /\ now = 0
    /\ tz = FixedZone
    /\ books = RenderBooksState(loadBooks(Missing), "All", <<>>)
    /\ storage = StringifyBooks(books)
    /\ readingDates = DatesOf(initReadingDates(Missing))
    /\ datesStorage = StringifyDates(readingDates)
    /\ streak = calculateStreak(readingDates, now, tz)
    /\ loadedDates = initReadingDates(Missing)
    /\ manualStreak = <<>>
    /\ manualStorage = Missing
    /\ rev = "calculated"
    /\ raised = "none"
    /\ lastOp = NoOp
    /\ IdleView

UIFrame == UNCHANGED <<manualStreak, rev, tz, manualStorage, loadedDates, pc,
                       filter, searchQuery>>

(* The render after setBooks and the effects that follow it: saveBooks     *)
(* (part_005:161-163) and, when the dates changed, the effect of the        *)
(* tracker (useReadingStreak.ts:64-67).  `marked` tells whether the handler *)
(* called markTodayAsRead, at the instant t.                                *)
Commit(nextBooks, marked, t) ==
    LET nextDates == IF marked
                     THEN markTodayAsReadUpdater(readingDates, getTodayString(t))
                     ELSE readingDates
        rendered == RenderBooksState(nextBooks, filter, searchQuery)
        booksFit == Fits(StringifyBooks(rendered), BooksQuota)
        datesRun == nextDates # readingDates
        datesFit == Fits(StringifyDates(nextDates), DatesQuota)
    IN  /\ books' = rendered
        /\ readingDates' = nextDates
        /\ storage' = IF booksFit THEN StringifyBooks(rendered) ELSE storage
        /\ datesStorage' = IF datesRun /\ datesFit
                           THEN StringifyDates(nextDates) ELSE datesStorage
        /\ streak' = IF datesRun /\ datesFit
                     THEN calculateStreak(nextDates, t, tz) ELSE streak
        /\ raised' = IF ~booksFit \/ (datesRun /\ ~datesFit)
                     THEN "QuotaExceededError" ELSE raised

(* handleUpdateBook (part_007:31-34). *)
updateWithoutMark(id, updates) == Commit(updateBook(books, id, updates), FALSE, now)

handleUpdateBook(id, updates) == Commit(updateBook(books, id, updates), TRUE, now)

(* A handler that returns before it calls onUpdate or onAdd. *)
Rejected(op, id) ==
    /\ lastOp' = [op |-> op, id |-> id, after |-> "rejected"]
    /\ UNCHANGED <<books, storage, now, raised, readingDates, streak, datesStorage>>

Accepted(op, id) == lastOp' = [op |-> op, id |-> id, after |-> "accepted"]

BookOf(id) == books[CHOOSE i \in DOMAIN books : books[i].id = id]

(* AddBookForm: the constraint validation of the form (the totalPages      *)
(* input, lines 123-126), validate (25-32) and handleSubmit (34-51), which  *)
(* calls handleAddBook (part_007:37-40).                                    *)
AddFormSubmit(title, author, pagesText, coverText) ==
    /\ pc = "mounted"
    /\ raised = "none"
    /\ now < MaxEvents
    /\ LET totalPages == NumberInputValue(pagesText)
           t == now + 1
       IN  /\ SatisfiesMinAndStep(totalPages, 1)
           /\ now' = t
           /\ IF \/ trim(title) = <<>>
                 \/ trim(author) = <<>>
                 \/ totalPages = <<>>
                 \/ Less(parseInt(totalPages), 1)
              THEN /\ lastOp' = [op |-> "add", id |-> t, after |-> "rejected"]
                   /\ UNCHANGED <<books, storage, raised, readingDates, streak,
                                  datesStorage, view>>
              ELSE /\ Commit(addBook(books,
                                     [title |-> trim(title),
                                      author |-> trim(author),
                                      totalPages |-> parseInt(totalPages),
                                      coverURL |-> IF trim(coverText) # <<>>
                                                   THEN trim(coverText)
                                                   ELSE PlaceholderCover],
                                     t),
                             TRUE, t)
                   /\ view' = (t :> toString(0)) @@ view
                   /\ Accepted("add", t)
    /\ UIFrame

(* EditBookForm: the constraint validation of the form (the totalPages     *)
(* input, lines 118-121), validate (38-47) and handleSubmit (49-61).        *)
EditFormSave(id, title, author, pagesText, coverText) ==
    /\ pc = "mounted"
    /\ raised = "none"
    /\ id \in BookIds(books)
    /\ LET book == BookOf(id)
           totalPages == NumberInputValue(pagesText)
           pages == parseInt(totalPages)
       IN  /\ SatisfiesMinAndStep(totalPages,
                                  IF book.currentPage = 0 THEN 1 ELSE book.currentPage)
           /\ IF \/ trim(title) = <<>>
                 \/ trim(author) = <<>>
                 \/ totalPages = <<>>
                 \/ Less(pages, 1)
                 \/ Less(pages, book.currentPage)
              THEN Rejected("edit", id)
              ELSE /\ handleUpdateBook(id, [title |-> trim(title),
                                            author |-> trim(author),
                                            totalPages |-> pages,
                                            coverURL |-> IF trim(coverText) # <<>>
                                                         THEN trim(coverText)
                                                         ELSE PlaceholderCover])
                   /\ Accepted("edit", id)
                   /\ UNCHANGED now
    /\ UNCHANGED view
    /\ UIFrame

(* handlePageChange (part_002:42-48) on the value of the page input. *)
PageChange(id, text) ==
    /\ pc = "mounted"
    /\ raised = "none"
    /\ id \in BookIds(books)
    /\ LET book == BookOf(id)
           value == NumberInputValue(text)
           numValue == parseInt(value)
       IN  /\ value # view[id]
           /\ view' = [view EXCEPT ![id] = value]
           /\ IF ~isNaN(numValue) /\ GreaterEq(numValue, 0)
                 /\ LessEq(numValue, book.totalPages)
              THEN /\ handleUpdateBook(id, [currentPage |-> numValue])
                   /\ Accepted("page", id)
                   /\ UNCHANGED now
              ELSE Rejected("page", id)
    /\ UIFrame

(* handlePageBlur (part_002:50-59). *)
PageBlur(id) ==
    /\ pc = "mounted"
    /\ raised = "none"
    /\ id \in BookIds(books)
    /\ LET book == BookOf(id)
           numValue == parseInt(view[id])
       IN  IF isNaN(numValue) \/ Less(numValue, 0)
           THEN /\ view' = [view EXCEPT ![id] = <<"0">>]
                /\ handleUpdateBook(id, [currentPage |-> 0])
                /\ Accepted("blur", id)
                /\ UNCHANGED now
           ELSE IF Greater(numValue, book.totalPages)
           THEN /\ view' = [view EXCEPT ![id] = toString(book.totalPages)]
                /\ handleUpdateBook(id, [currentPage |-> book.totalPages])
                /\ Accepted("blur", id)
                /\ UNCHANGED now
           ELSE Rejected("blur", id) /\ UNCHANGED view
    /\ UIFrame

NextUI ==
    \/ \E title \in Titles, pagesText \in TotalPagesTexts, coverText \in CoverTexts :
          AddFormSubmit(title, <<"A">>, pagesText, coverText)
    \/ \E id \in CardIds, title \in Titles, pagesText \in TotalPagesTexts,
          coverText \in CoverTexts :
          EditFormSave(id, title, <<"A">>, pagesText, coverText)
    \/ \E id \in CardIds, text \in PageTexts : PageChange(id, text)
    \/ \E id \in CardIds : PageBlur(id)

SpecUI == InitUI /\ [][NextUI]_vars

(* C24: from the empty library, after any sequence of add-form submits,   *)
(* changes and blurs of the page input and edit-form saves, every stored    *)
(* book has totalPages >= 1 and 0 <= currentPage <= totalPages.             *)
C24_PagesWellFormed ==
    \A i \in DOMAIN books :
        /\ GreaterEq(books[i].totalPages, 1)
        /\ LessEq(0, books[i].currentPage)
        /\ LessEq(books[i].currentPage, books[i].totalPages)

----------------------------------------------------------------------------
(* SpecReflections: the add form, the edit form and the page reflections   *)
(* of the detail dialog (part_002:61-84).                                   *)

(* [...].sort((a, b) => a.page - b.page): the sort is stable, so a         *)
(* reflection goes after the reflections of its page.                       *)
RECURSIVE InsertReflection(_, _)
InsertReflection(sorted, r) ==
    IF sorted = <<>> THEN <<r>>
    ELSE IF r.page - Head(sorted).page < 0 THEN <<r>> \o sorted
    ELSE <<Head(sorted)>> \o InsertReflection(Tail(sorted), r)

KeepOrder(rs) == rs

RECURSIVE SortReflections(_)
SortReflections(rs) ==
    IF rs = <<>> THEN <<>>
    ELSE InsertReflection(SortReflections(SubSeq(rs, 1, Len(rs) - 1)), rs[Len(rs)])

(* handleAddReflection (part_002:61-80) on the texts of the page input and *)
(* of the topic input; the text of the reflection is left empty and the     *)
(* mood is the default.                                                     *)
AddReflection(id, pageText, topic) ==
    /\ pc = "mounted"
    /\ raised = "none"
    /\ id \in BookIds(books)
    /\ LET book == BookOf(id)
           reflections == book.pageReflections
           page == parseInt(NumberInputValue(pageText))
           newReflection == [page |-> page, topic |-> trim(topic), text |-> <<>>,
                             mood |-> "neutral"]
       IN  /\ Len(reflections) < MaxReflections
           /\ IF \/ isNaN(page)
                 \/ Less(page, 1)
                 \/ Greater(page, book.totalPages)
                 \/ trim(topic) = <<>>
              THEN /\ UNCHANGED <<books, storage, now, raised, readingDates, streak,
                                  datesStorage>>
                   /\ lastOp' = [op |-> "reflect", id |-> id, after |-> "rejected",
                                 page |-> page, blank |-> trim(topic) = <<>>]
              ELSE /\ handleUpdateBook(id, [pageReflections |->
                           SortReflections(Append(reflections, newReflection))])
                   /\ lastOp' = [op |-> "reflect", id |-> id, after |-> "accepted",
                                 page |-> page, blank |-> trim(topic) = <<>>]
                   /\ UNCHANGED now
    /\ UNCHANGED view
    /\ UIFrame

(* handleDeleteReflection (part_002:82-84) from the button of the          *)
(* reflection at `index` (an index of JavaScript, from 0).                  *)
DeleteReflection(id, index) ==
    /\ pc = "mounted"
    /\ raised = "none"
    /\ id \in BookIds(books)
    /\ LET reflections == BookOf(id).pageReflections
       IN  /\ index + 1 \in DOMAIN reflections
           /\ handleUpdateBook(id, [pageReflections |->
                   [i \in 1 .. (Len(reflections) - 1) |->
                       IF i < index + 1 THEN reflections[i] ELSE reflections[i + 1]]])
           /\ Accepted("unreflect", id)
    /\ UNCHANGED <<now, view>>
    /\ UIFrame

NextReflections ==
    \/ \E pagesText \in TotalPagesTexts, coverText \in CoverTexts :
          AddFormSubmit(<<"T">>, <<"A">>, pagesText, coverText)
    \/ \E id \in CardIds, pagesText \in TotalPagesTexts, coverText \in CoverTexts :
          EditFormSave(id, <<"T">>, <<"A">>, pagesText, coverText)
    \/ \E id \in CardIds, pageText \in ReflectionPageTexts, topic \in Topics :
          AddReflection(id, pageText, topic)
    \/ \E id \in CardIds, index \in 0 .. (MaxReflections - 1) :
          DeleteReflection(id, index)

SpecReflections == InitUI /\ [][NextReflections]_vars

(* C25: every page reflection of a stored book has its page in            *)
(* [1, totalPages], also after totalPages was lowered through the edit form *)
(* following the insertion of a reflection at a higher page.  Stated for    *)
(* the books whose totalPages is a number.                                  *)
C25_ReflectionPagesInRange ==
    \A i \in DOMAIN books :
        \A k \in DOMAIN books[i].pageReflections :
            /\ books[i].pageReflections[k].page >= 1
            /\ isNaN(books[i].totalPages)
               \/ books[i].pageReflections[k].page <= books[i].totalPages

ReflectionsOf(bs, id) == bs[CHOOSE i \in DOMAIN bs : bs[i].id = id].pageReflections

SortedByPage(rs) == \A i, j \in DOMAIN rs : i < j => rs[i].page <= rs[j].page

RemoveAt(rs, k) ==
    [i \in 1 .. (Len(rs) - 1) |-> IF i < k THEN rs[i] ELSE rs[i + 1]]

(* C26: after every insert and every delete of a reflection the            *)
(* reflections of the book are sorted ascending by page; an accepted insert *)
(* adds one reflection and keeps every reflection that was there, also one  *)
(* of the same page; an insert whose page is no number, is below 1 or above *)
(* totalPages, or whose topic is blank, leaves the books unchanged.         *)
C26_ReflectionsSorted ==
    [][lastOp'.op \in {"reflect", "unreflect"} =>
         LET id == lastOp'.id
             old == ReflectionsOf(books, id)
             new == ReflectionsOf(books', id)
         IN  /\ SortedByPage(new)
             /\ (lastOp'.op = "reflect" /\ lastOp'.after = "accepted") =>
                   /\ Len(new) = Len(old) + 1
                   /\ \E k \in DOMAIN new :
                         /\ new[k].page = lastOp'.page
                         /\ RemoveAt(new, k) = old
             /\ (/\ lastOp'.op = "reflect"
                 /\ \/ isNaN(lastOp'.page)
                    \/ Less(lastOp'.page, 1)
                    \/ Greater(lastOp'.page, BookOf(id).totalPages)
                    \/ lastOp'.blank)
                => books' = books]_vars

(* An insert at a page that already has a reflection: two of the page. *)
C26_Witness ==
    /\ lastOp.op = "reflect"
    /\ lastOp.after = "accepted"
    /\ LET rs == ReflectionsOf(books, lastOp.id)
       IN  \E i, j \in DOMAIN rs : i < j /\ rs[i].page = rs[j].page

----------------------------------------------------------------------------
(* SpecActivity: the handlers of the page that record reading activity,    *)
(* the delete button of a card, and the change of day.                      *)

NoteTexts == {"note"}

(* handleOverallNotesChange (BookCard.tsx:27-29). *)
NotesChange(id, value) ==
    /\ pc = "mounted"
    /\ raised = "none"
    /\ id \in BookIds(books)
    /\ handleUpdateBook(id, [notes |-> value])
    /\ Accepted("notes", id)
    /\ UNCHANGED <<now, view>>
    /\ UIFrame

(* The delete button of a card (BookCard.tsx:111), wired to deleteBook     *)
(* (part_007:110); the card and its dialog state go with the book.          *)
CardDelete(id) ==
    /\ pc = "mounted"
    /\ raised = "none"
    /\ id \in BookIds(books)
    /\ Commit(deleteBook(books, id), FALSE, now)
    /\ view' = [i \in DOMAIN view \ {id} |-> view[i]]
    /\ Accepted("delete", id)
    /\ UNCHANGED now
    /\ UIFrame

(* The next day begins. *)
NextDay ==
    /\ pc = "mounted"
    /\ now < TicksPerDay * MaxVisits
    /\ now' = TicksPerDay * (now \div TicksPerDay + 1)
    /\ lastOp' = Op("day", now')
    /\ UNCHANGED <<books, storage, raised, readingDates, streak, datesStorage, view>>
    /\ UIFrame

NextActivity ==
    \/ \E pagesText \in {<<>>, <<"2">>}, coverText \in CoverTexts :
          AddFormSubmit(<<"T">>, <<"A">>, pagesText, coverText)
    \/ \E id \in CardIds, text \in {<<"1">>, <<"3">>} : PageChange(id, text)
    \/ \E id \in CardIds : PageBlur(id)
    \/ \E id \in CardIds, value \in NoteTexts : NotesChange(id, value)
    \/ \E id \in CardIds, topic \in Topics : AddReflection(id, <<"1">>, topic)
    \/ \E id \in CardIds : CardDelete(id)
    \/ NextDay

SpecActivity == InitUI /\ [][NextActivity]_vars

(* C28: after every page update, note update, reflection add and new-book  *)
(* add made through the handlers of the page, today's date is among the     *)
(* reading dates; a delete adds no date.                                    *)
C28_ActivityMarksToday ==
    [][/\ (/\ lastOp'.op \in {"page", "blur", "notes", "reflect", "add"}
           /\ lastOp'.after = "accepted")
          => getTodayString(now') \in Range(readingDates')
       /\ lastOp'.op = "delete" => readingDates' = readingDates]_vars

(* A note update on the second day, after activity on the first. *)
C28_Witness ==
    /\ lastOp.op = "notes"
    /\ lastOp.after = "accepted"
    /\ getTodayString(now) = 1
    /\ readingDates = <<0, 1>>

----------------------------------------------------------------------------
(* SpecFields: the store with the updates the cards give it: of the page,  *)
(* of the notes and of the priority (BookCard.tsx:28, 42).                  *)

FieldUpdates == {[currentPage |-> 1], [notes |-> "note"], [priority |-> "high"]}

NextFields ==
    \/ \E bookData \in Drafts : AddBook(bookData)
    \/ \E id \in Ids, updates \in FieldUpdates : UpdateBook(id, updates)
    \/ Tick

SpecFields == Init /\ [][NextFields]_vars

(* C27: update(id, partialFields) changes only the books with that id and  *)
(* of them only the fields in partialFields: the list keeps its length and  *)
(* its order, every other book is unchanged, and a book with the id has the *)
(* given fields set and every other field unchanged.                        *)
C27_UpdateChangesOnlyGivenFields ==
    [][\A id \in Ids, updates \in FieldUpdates :
          (lastOp'.op = "update" /\ UpdateBook(id, updates)) =>
             /\ Len(books') = Len(books)
             /\ \A i \in DOMAIN books :
                   IF books[i].id = id
                   THEN /\ DOMAIN books'[i] = DOMAIN books[i] \cup DOMAIN updates
                        /\ \A f \in DOMAIN updates : books'[i][f] = updates[f]
                        /\ \A f \in DOMAIN books[i] \ DOMAIN updates :
                              books'[i][f] = books[i][f]
                   ELSE books'[i] = books[i]]_vars

----------------------------------------------------------------------------
(* SpecViewer: the PDF viewer (PDFViewer.tsx) open on the one book of the  *)
(* library, which was added through the add form at the first tick.  `view` *)
(* holds the state of the viewer: its localAnnotations, the time-outs of    *)
(* addAnnotation that have not fired yet, each with the list its callback   *)
(* captured, the number of annotations made so far and the ids of the       *)
(* annotations that were deleted.  An annotation is modelled by its id,     *)
(* which the source makes unique (line 580).                                *)

MaxAnnotations == 3

ViewerBook ==
    NewBook([title |-> <<"T">>, author |-> <<"A">>, totalPages |-> 2,
             coverURL |-> PlaceholderCover], 1)

InitViewer ==
    /\ pc = "mounted"
    /\ now = 1
    /\ tz = FixedZone
    /\ books = RenderBooksState(addBook(loadBooks(Missing), ViewerBook, 1), "All", <<>>)
    /\ storage = StringifyBooks(books)
    /\ readingDates = markTodayAsReadUpdater(DatesOf(initReadingDates(Missing)),
                                             getTodayString(now))
    /\ datesStorage = StringifyDates(readingDates)
    /\ streak = calculateStreak(readingDates, now, tz)
    /\ loadedDates = initReadingDates(Missing)
    /\ manualStreak = <<>>
    /\ manualStorage = Missing
    /\ rev = "calculated"
    /\ raised = "none"
    /\ lastOp = NoOp
    /\ filter = "All"
    /\ searchQuery = <<>>
    /\ view = [localAnnotations |-> books[1].pdfAnnotations,
               timeouts |-> <<>>, made |-> 0, deleted |-> {}]

(* handleSaveAnnotations (part_002:132-134), the onSaveAnnotations of the  *)
(* viewer.                                                                  *)
handleSaveAnnotations(annotations) ==
    handleUpdateBook(books[1].id, [pdfAnnotations |-> annotations])

(* addAnnotation (PDFViewer.tsx:578-598): the callback of the time-out     *)
(* saves the localAnnotations of the render in which addAnnotation ran,     *)
(* with the new annotation appended.                                        *)
AddAnnotation ==
    /\ pc = "mounted"
    /\ raised = "none"
    /\ view.made < MaxAnnotations
    /\ LET newAnnotation == [id |-> view.made + 1, type |-> "note"]
       IN  view' = [view EXCEPT
                       !.localAnnotations = Append(@, newAnnotation),
                       !.timeouts = Append(@, Append(view.localAnnotations, newAnnotation)),
                       !.made = @ + 1]
    /\ lastOp' = Op("annotate", view.made + 1)
    /\ UNCHANGED <<books, storage, now, raised, readingDates, streak, datesStorage>>
    /\ UIFrame

(* The oldest time-out fires, 500 ms after its addAnnotation. *)
AutoSave ==
    /\ pc = "mounted"
    /\ raised = "none"
    /\ view.timeouts # <<>>
    /\ handleSaveAnnotations(Head(view.timeouts))
    /\ view' = [view EXCEPT !.timeouts = Tail(@)]
    /\ lastOp' = Op("autoSave", 0)
    /\ UNCHANGED now
    /\ UIFrame

(* deleteAnnotation (PDFViewer.tsx:600-610): the filtered list is saved at *)
(* once.                                                                    *)
DeleteAnnotation(id) ==
    /\ pc = "mounted"
    /\ raised = "none"
    /\ \E i \in DOMAIN view.localAnnotations : view.localAnnotations[i].id = id
    /\ LET updated == SelectSeq(view.localAnnotations, LAMBDA a : a.id # id)
       IN  /\ view' = [view EXCEPT !.localAnnotations = updated,
                                    !.deleted = @ \cup {id}]
           /\ handleSaveAnnotations(updated)
    /\ lastOp' = Op("deleteAnnotation", id)
    /\ UNCHANGED now
    /\ UIFrame

(* handleSave (PDFViewer.tsx:612-618). *)
HandleSave ==
    /\ pc = "mounted"
    /\ raised = "none"
    /\ handleSaveAnnotations(view.localAnnotations)
    /\ lastOp' = Op("save", 0)
    /\ UNCHANGED <<now, view>>
    /\ UIFrame

NextViewer ==
    \/ AddAnnotation
    \/ AutoSave
    \/ \E id \in 1..MaxAnnotations : DeleteAnnotation(id)
    \/ HandleSave

SpecViewer == InitViewer /\ [][NextViewer]_vars

(* C29: once an annotation is deleted it is never again in a list given    *)
(* to onSaveAnnotations, and when no auto-save is outstanding the last list *)
(* saved is the local list of the viewer, for every interleaving of         *)
(* addAnnotation, its auto-save, deleteAnnotation and the manual save.      *)
C29_DeletedStaysDeleted ==
    /\ \A i \in DOMAIN books[1].pdfAnnotations :
          books[1].pdfAnnotations[i].id \notin view.deleted
    /\ (view.timeouts = <<>> /\ lastOp.op \in {"autoSave", "deleteAnnotation", "save"})
          => books[1].pdfAnnotations = view.localAnnotations

====
